---- MODULE Spec2Model ----
(***************************************************************************)
(* The node registry and the heartbeat failure detector of                 *)
(* src/api_server.py: the APIServer object (the dict `nodes`), the HTTP    *)
(* handlers that run one thread per request, and the daemon thread         *)
(* _monitor_node_health.  There is no lock anywhere in the source: the     *)
(* threads interleave between the steps modelled below, each of which is   *)
(* one dict or attribute operation of the interpreter.                     *)
(*                                                                         *)
(* Time is the value of time.time(), read in whole seconds on a clock that *)
(* advances ClockStep at a time.                                           *)
(*                                                                         *)
(* The node side is src/node_container.py, one NodeContainer object with   *)
(* the thread that calls start() and stop() and its heartbeat thread, and   *)
(* the handle cache of src/kubernetes_sim_cli.py (active_nodes and the     *)
(* file node_registry.pkl).  The answers of its HTTP calls are drawn from  *)
(* the answers the handlers above can give, or the call raises.            *)
(***************************************************************************)
EXTENDS Integers, Sequences, FiniteSets, TLC

\* ---- bounds of the model
MaxNodes == 2
MaxTime == 60
ClockStep == 15

\* ---- constants of the program
heartbeat_timeout == 30
scan_sleep == 5

None == "None"
\* the uuid4 values the process can draw
NodeIds == 1..MaxNodes
\* the (cpu_cores, container_id) arguments register_node is called with
RegisterArgs == { [cpu_cores |-> 1, container_id |-> None],
                  [cpu_cores |-> 4, container_id |-> "simulated_0"] }

VARIABLES
    now,          \* time.time()
    nodes,        \* APIServer.nodes: the dict, as the sequence of its values in insertion order
    registering,  \* register_node calls in flight: the local new_node of each
    monitor,      \* the locals and the position of _monitor_node_health
    listing,      \* the list_nodes call in flight: the dict iterator and the list built so far
    resp,         \* the answer the step just taken gave, if it gave one
    returned,     \* history: the node ids register_node returned, in order
    hist,         \* history, per node id: heartbeats received and late scan visits
    container,    \* the NodeContainer object: its __dict__
    main,         \* the thread that constructs, starts and stops it: position, and history
    sender,       \* the thread _send_heartbeats: position, and history of its calls
    docker_engine,      \* the container engine: the ids of the containers running in it
    active_nodes,       \* kubernetes_sim_cli.active_nodes of the CLI process: a dict, as `nodes` is
    node_registry_file  \* node_registry.pkl: whether it exists, and the dict pickled in it

\* the state of the control plane, and the state of the node side
server == <<now, nodes, registering, monitor, listing, resp, returned, hist>>

client == <<container, main, sender, docker_engine, active_nodes, node_registry_file>>

vars == <<now, nodes, registering, monitor, listing, resp, returned, hist,
          container, main, sender, docker_engine, active_nodes, node_registry_file>>

\* ---- the dict self.nodes
Keys(d) == { d[i].node_id : i \in DOMAIN d }

Index(d, id) == CHOOSE i \in DOMAIN d : d[i].node_id = id

Get(d, id) == d[Index(d, id)]

\* get_node, line 59: self.nodes.get(node_id)
get_node(d, id) == IF id \in Keys(d) THEN Get(d, id) ELSE None

\* d[id] = node: a present key keeps its place, a new key goes last
dict_set(d, id, node) ==
    IF id \in Keys(d) THEN [d EXCEPT ![Index(d, id)] = node] ELSE Append(d, node)

\* a monitor that stores the whole record it read when it sets the status
set_attr_of_copy(d, id, field, value) ==
    [d EXCEPT ![Index(d, id)] =
        IF field = "status"
        THEN [@ EXCEPT !.status = value, !.last_heartbeat = monitor.seen_hb]
        ELSE [@ EXCEPT ![field] = value]]

\* node.<field> = value on the object stored under id
set_attr(d, id, field, value) ==
    [d EXCEPT ![Index(d, id)] = [@ EXCEPT ![field] = value]]

\* ---- class Node
\* a constructor that leaves last_heartbeat at zero instead of reading the clock
Node_no_clock(cpu_cores, node_id, t) ==
    [ node_id         |-> node_id,
      cpu_cores       |-> cpu_cores,
      available_cores |-> cpu_cores,
      pods            |-> <<>>,
      status          |-> "Ready",
      last_heartbeat  |-> 0,
      container_id    |-> None ]

Node(cpu_cores, node_id, t) ==
    [ node_id         |-> node_id,
      cpu_cores       |-> cpu_cores,
      available_cores |-> cpu_cores,
      pods            |-> <<>>,
      status          |-> "Ready",
      last_heartbeat  |-> t,
      container_id    |-> None ]

to_dict(node) ==
    [ node_id         |-> node.node_id,
      cpu_cores       |-> node.cpu_cores,
      available_cores |-> node.available_cores,
      pods            |-> node.pods,
      status          |-> node.status,
      last_heartbeat  |-> node.last_heartbeat,
      container_id    |-> node.container_id ]

\* the least of a set of ids, as a set (empty when the set is)
Least(S) == { id \in S : \A j \in S : id <= j }

\* an id derived from the dict (the first key not in it) instead of a fresh uuid:
\* two calls in flight can draw the same one
uuid4_from_dict == Least(NodeIds \ Keys(nodes))

\* str(uuid.uuid4()): a value no earlier call of the process drew.  Ids are only
\* ever compared for equality, so the draw is the least value not drawn yet
uuid4 == Least(NodeIds \ (Keys(nodes) \cup { r.node.node_id : r \in registering }))

NoResp == [op |-> "none", node_id |-> 0, code |-> 0]

\* beats: heartbeats received (0 or 1: none, some).  For a node that received none:
\* late_scans, the scan visits made more than the timeout after it registered
\* (0, 1, 2: none, one, more), and late_at, the current_time of the first of them
NoHist == [beats |-> 0, late_scans |-> 0, late_at |-> 0]

\* sleep_left: what is left of time.sleep(5)
MonitorIdle == [pc |-> "sleep", current_time |-> 0, items |-> <<>>, i |-> 0, seen_hb |-> 0, sleep_left |-> 0]

ListIdle == [pc |-> "idle", di_used |-> 0, pos |-> 0, acc |-> <<>>, cand |-> {}]

\* ---- class NodeContainer of src/node_container.py
API_SERVER_URL == "http://localhost:5000"

\* the cpu_cores a NodeContainer is constructed with (node_container.py's own main
\* does not check the sign)
ContainerCores == {0, 4}

\* the node ids a registration is answered with
Uuids == {"uuid_1", "uuid_2"}

\* the ids the engine gives to the containers it runs
DockerIds == {"docker_1", "docker_2"}

\* __init__, lines 18-26
NodeContainer(cpu_cores, api_server_url) ==
    [ cpu_cores        |-> cpu_cores,
      api_server_url   |-> api_server_url,
      identifier       |-> None,
      node_id          |-> None,
      docker_client    |-> None,
      container_id     |-> None,
      heartbeat_thread |-> None,
      running          |-> FALSE ]

\* no object yet
NoContainer == NodeContainer(0, None)

\* pc: none (no object), new, client, launched (inside start), started, failed
\* (start returned), stopping (inside stop), stopped.  History: result, what start
\* returned; executor, whether the engine gave a client and launched the container;
\* answer, the status code of the registration (0: none, or the call raised)
MainIdle == [pc |-> "none", result |-> "none", executor |-> "none", answer |-> 0]

\* pc: none (no thread), check (line 115), post (line 117), sleep (line 126), exit.
\* History: target, the node id of the last call; ok, whether it was answered 200;
\* late, the calls made with running false (0, 1, 2: none, one, more)
SenderIdle == [pc |-> "none", target |-> None, ok |-> TRUE, late |-> 0]

NoFile == [exists |-> FALSE, data |-> <<>>]

Init ==
    /\ now = 0
    /\ nodes = <<>>
    /\ registering = {}
    /\ monitor = MonitorIdle
    /\ listing = ListIdle
    /\ resp = NoResp
    /\ returned = <<>>
    /\ hist = [id \in NodeIds |-> NoHist]
    /\ container = NoContainer
    /\ main = MainIdle
    /\ sender = SenderIdle
    /\ docker_engine = {}
    /\ active_nodes = <<>>
    /\ node_registry_file = NoFile

\* ---- history of the list_nodes call in flight.  listing.cand holds, for every
\* instant of the registry since the call began whose first records are the ones
\* the call has read so far, the records the call has yet to read
IsPrefix(acc, d) ==
    /\ Len(acc) <= Len(d)
    /\ \A i \in 1..Len(acc) : acc[i] = to_dict(d[i])

Rest(acc, d) == SubSeq(d, Len(acc) + 1, Len(d))

Observe(l, d) ==
    IF l.pc = "iter" /\ IsPrefix(l.acc, d)
    THEN [l EXCEPT !.cand = @ \cup {Rest(l.acc, d)}]
    ELSE l

\* ---- the clock
Advance(step) ==
    /\ now + step <= MaxTime
    /\ now' = now + step
    /\ monitor' = [monitor EXCEPT !.sleep_left = IF @ > step THEN @ - step ELSE 0]
    /\ resp' = NoResp
    /\ UNCHANGED <<client, nodes, registering, listing, returned, hist>>

Tick == Advance(ClockStep)

\* the clock of SpecList: a whole timeout passes, and one tick more
LongTick == Advance(heartbeat_timeout + ClockStep)

\* ---- register_node, lines 51-52: new_node = Node(cpu_cores); new_node.container_id = ...
register_node_create(args) ==
    /\ \E id \in uuid4 :
          registering' = registering \cup
              { [ args |-> args, called |-> now,
                  node |-> [Node(args.cpu_cores, id, now) EXCEPT !.container_id = args.container_id] ] }
    /\ resp' = NoResp
    /\ UNCHANGED <<client, now, nodes, monitor, listing, returned, hist>>

\* register_node, lines 53-55, and add_node's answer, lines 110-114
register_node_insert(r) ==
    /\ r \in registering
    /\ nodes' = dict_set(nodes, r.node.node_id, r.node)
    /\ registering' = registering \ {r}
    /\ resp' = [op |-> "register", node_id |-> r.node.node_id, code |-> 201]
    /\ returned' = Append(returned, r.node.node_id)
    /\ listing' = Observe(listing, nodes')
    /\ UNCHANGED <<client, now, monitor, hist>>

\* ---- the handler add_node, lines 94-117
\* the JSON values a request carries under "cpu_cores": an integer, a real number
\* (n is ten times the number: 25 is 2.5), a string of digits, another string, null
JsonValues ==
    { [type |-> "int", n |-> -3], [type |-> "int", n |-> 0], [type |-> "int", n |-> 4],
      [type |-> "real", n |-> 5], [type |-> "real", n |-> 25],
      [type |-> "digits", n |-> 4], [type |-> "abc", n |-> 0], [type |-> "null", n |-> 0] }

\* request.json: data is empty (no body, or {}), or a dict with or without "cpu_cores"
Bodies ==
    { [data |-> "empty", cpu_cores |-> [type |-> "null", n |-> 0], container_id |-> None],
      [data |-> "no_cpu_cores", cpu_cores |-> [type |-> "null", n |-> 0], container_id |-> "simulated_0"] }
    \cup { [data |-> "cpu_cores", cpu_cores |-> v, container_id |-> c] :
              v \in JsonValues, c \in {None, "simulated_0"} }

\* int(x), line 103: an integer is itself, a real is truncated towards zero, a string
\* is parsed or raises ValueError, None raises TypeError
int(v) ==
    CASE v.type = "int"    -> [raises |-> "no", value |-> v.n]
      [] v.type = "real"   -> [raises |-> "no", value |-> IF v.n >= 0 THEN v.n \div 10 ELSE -((-v.n) \div 10)]
      [] v.type = "digits" -> [raises |-> "no", value |-> v.n]
      [] v.type = "abc"    -> [raises |-> "ValueError", value |-> 0]
      [] v.type = "null"   -> [raises |-> "TypeError", value |-> 0]

\* the answer of add_node when it registers nothing, 0 when it goes on to register:
\* lines 99-100, 104-105 and 116-117 answer 400; an exception the handler does not
\* catch (it catches ValueError only) is answered 500 by the framework
add_node_code(body) ==
    IF body.data # "cpu_cores" THEN 400
    ELSE IF int(body.cpu_cores).raises = "ValueError" THEN 400
    ELSE IF int(body.cpu_cores).raises # "no" THEN 500
    ELSE IF int(body.cpu_cores).value <= 0 THEN 400
    ELSE 0

\* lines 97-108: the validation, and the call of register_node up to line 52
add_node(body) ==
    IF add_node_code(body) # 0
    THEN /\ resp' = [op |-> "add_node", node_id |-> 0, code |-> add_node_code(body)]
         /\ UNCHANGED <<client, now, nodes, registering, monitor, listing, returned, hist>>
    ELSE register_node_create([cpu_cores |-> int(body.cpu_cores).value,
                               container_id |-> body.container_id])

\* ---- update_node_heartbeat, lines 67-70
update_node_heartbeat_result(d, node_id) == node_id \in Keys(d)

\* a heartbeat that also sets the status back to Ready
update_node_heartbeat_revive(d, node_id, t) ==
    IF node_id \in Keys(d)
    THEN set_attr(set_attr(d, node_id, "last_heartbeat", t), node_id, "status", "Ready")
    ELSE d

\* a heartbeat that creates the record of an id it does not know
update_node_heartbeat_upsert(d, node_id, t) ==
    IF node_id \in Keys(d)
    THEN set_attr(d, node_id, "last_heartbeat", t)
    ELSE Append(d, Node(1, node_id, t))

update_node_heartbeat_nodes(d, node_id, t) ==
    IF node_id \in Keys(d) THEN set_attr(d, node_id, "last_heartbeat", t) ELSE d

\* update_heartbeat, lines 129-132
update_heartbeat_code(success) == IF success THEN 200 ELSE 404

update_heartbeat(node_id) ==
    /\ nodes' = update_node_heartbeat_nodes(nodes, node_id, now)
    /\ resp' = [op |-> "heartbeat", node_id |-> node_id,
                code |-> update_heartbeat_code(update_node_heartbeat_result(nodes, node_id))]
    /\ hist' = IF node_id \in Keys(nodes)
               THEN [hist EXCEPT ![node_id] = [NoHist EXCEPT !.beats = 1]]
               ELSE hist
    /\ listing' = Observe(listing, nodes')
    /\ UNCHANGED <<client, now, registering, monitor, returned>>

\* ---- _monitor_node_health
\* line 78: current_time - node.last_heartbeat > self.heartbeat_timeout
\* >= for >
timed_out_at_timeout(current_time, last_heartbeat) ==
    current_time - last_heartbeat >= heartbeat_timeout

\* a test that takes the scan interval off the timeout
timed_out_early(current_time, last_heartbeat) ==
    current_time - last_heartbeat > heartbeat_timeout - scan_sleep

timed_out(current_time, last_heartbeat) ==
    current_time - last_heartbeat > heartbeat_timeout

\* two ifs for the if/elif: a Ready node falls through to Failed in one visit
mark_status_two_ifs(status) ==
    IF status \in {"Ready", "NotReady"} THEN "Failed" ELSE status

\* no elif branch: a NotReady node is never failed
mark_status_no_elif(status) ==
    IF status = "Ready" THEN "NotReady" ELSE status

\* lines 79-86: the status the expired branch leaves
mark_status(status) ==
    IF status = "Ready" THEN "NotReady"
    ELSE IF status = "NotReady" THEN "Failed"
    ELSE status

\* list(self.nodes.items()), line 76: the keys of the dict at this instant
\* (each item carries the node object itself, found again here by its key)
items_snapshot(d) == [k \in 1..Len(d) |-> d[k].node_id]

\* the loop iterating the dict itself, without list()
scan_rest_of_dict(m, d) == SubSeq(items_snapshot(d), m.i + 1, Len(d))

\* the items the for loop of line 76 has yet to visit: it iterates the list
scan_rest(m, d) == SubSeq(m.items, m.i + 1, Len(m.items))

\* history: a scan at current_time ends its visit of a node whose last_heartbeat it read
Visited(h, current_time, last_heartbeat) ==
    IF h.beats = 0 /\ current_time - last_heartbeat > heartbeat_timeout
    THEN IF h.late_scans = 0
         THEN [h EXCEPT !.late_scans = 1, !.late_at = current_time]
         ELSE [h EXCEPT !.late_scans = 2]
    ELSE h

\* line 75: current_time = time.time()
monitor_read_clock ==
    /\ monitor.pc = "sleep"
    /\ monitor.sleep_left = 0
    /\ monitor' = [monitor EXCEPT !.pc = "clock", !.current_time = now]
    /\ resp' = NoResp
    /\ UNCHANGED <<client, now, nodes, registering, listing, returned, hist>>

\* line 76: for node_id, node in list(self.nodes.items())
monitor_snapshot ==
    /\ monitor.pc = "clock"
    /\ monitor' = [monitor EXCEPT !.pc = "iter", !.items = items_snapshot(nodes), !.i = 0]
    /\ resp' = NoResp
    /\ UNCHANGED <<client, now, nodes, registering, listing, returned, hist>>

\* line 78, on the next item of the list
monitor_check ==
    /\ monitor.pc = "iter"
    /\ scan_rest(monitor, nodes) # <<>>
    /\ LET node == Get(nodes, Head(scan_rest(monitor, nodes))) IN
         IF timed_out(monitor.current_time, node.last_heartbeat)
         THEN /\ monitor' = [monitor EXCEPT !.pc = "expired", !.seen_hb = node.last_heartbeat]
              /\ hist' = hist
         ELSE /\ monitor' = [monitor EXCEPT !.i = @ + 1]
              /\ hist' = [hist EXCEPT ![node.node_id] =
                             Visited(@, monitor.current_time, node.last_heartbeat)]
    /\ resp' = NoResp
    /\ UNCHANGED <<client, now, nodes, registering, listing, returned>>

\* lines 79-86, inside the if of line 78
monitor_mark ==
    /\ monitor.pc = "expired"
    /\ LET node == Get(nodes, Head(scan_rest(monitor, nodes))) IN
         /\ nodes' = set_attr(nodes, node.node_id, "status", mark_status(node.status))
         /\ hist' = [hist EXCEPT ![node.node_id] =
                        Visited(@, monitor.current_time, monitor.seen_hb)]
    /\ monitor' = [monitor EXCEPT !.pc = "iter", !.i = @ + 1, !.seen_hb = 0]
    /\ listing' = Observe(listing, nodes')
    /\ resp' = NoResp
    /\ UNCHANGED <<client, now, registering, returned>>

\* a monitor that returns after one scan: no while True
monitor_return ==
    /\ monitor.pc = "iter"
    /\ scan_rest(monitor, nodes) = <<>>
    /\ monitor' = [MonitorIdle EXCEPT !.pc = "return"]
    /\ resp' = NoResp
    /\ UNCHANGED <<client, now, nodes, registering, listing, returned, hist>>

\* a sleep of two scan intervals
monitor_sleep_long ==
    /\ monitor.pc = "iter"
    /\ scan_rest(monitor, nodes) = <<>>
    /\ monitor' = [MonitorIdle EXCEPT !.sleep_left = 2 * scan_sleep]
    /\ resp' = NoResp
    /\ UNCHANGED <<client, now, nodes, registering, listing, returned, hist>>

\* line 89: time.sleep(5), when the list is exhausted
monitor_sleep ==
    /\ monitor.pc = "iter"
    /\ scan_rest(monitor, nodes) = <<>>
    /\ monitor' = [MonitorIdle EXCEPT !.sleep_left = scan_sleep]
    /\ resp' = NoResp
    /\ UNCHANGED <<client, now, nodes, registering, listing, returned, hist>>

\* ---- list_nodes, line 63: [node.to_dict() for node in self.nodes.values()]
\* the iterator over the dict's values is created
list_nodes_iter ==
    /\ listing.pc = "idle"
    /\ listing' = [pc |-> "iter", di_used |-> Len(nodes), pos |-> 0, acc |-> <<>>,
                   cand |-> {nodes}]
    /\ resp' = NoResp
    /\ UNCHANGED <<client, now, nodes, registering, monitor, returned, hist>>

\* one next() of the dict iterator: it raises RuntimeError("dictionary changed size
\* during iteration") when the dict's size is not the one it was created with
list_nodes_next ==
    /\ listing.pc = "iter"
    /\ IF Len(nodes) # listing.di_used
       THEN listing' = [listing EXCEPT !.pc = "RuntimeError", !.acc = <<>>, !.cand = {}]
       ELSE IF listing.pos < Len(nodes)
       THEN LET item == to_dict(nodes[listing.pos + 1]) IN
              listing' = [listing EXCEPT
                  !.pos = @ + 1,
                  !.acc = Append(@, item),
                  !.cand = { Tail(d) : d \in { c \in @ : c # <<>> /\ to_dict(Head(c)) = item } }]
       ELSE listing' = [listing EXCEPT !.pc = "return"]
    /\ resp' = NoResp
    /\ UNCHANGED <<client, now, nodes, registering, monitor, returned, hist>>

\* the handler list_nodes, lines 122-123, answers 200 with the list; an exception
\* that left list_nodes is answered 500 by the framework
list_nodes_code(pc) == IF pc = "return" THEN 200 ELSE 500

list_nodes_respond ==
    /\ listing.pc \in {"return", "RuntimeError"}
    /\ listing' = ListIdle
    /\ resp' = [op |-> "list", node_id |-> 0, code |-> list_nodes_code(listing.pc)]
    /\ UNCHANGED <<client, now, nodes, registering, monitor, returned, hist>>

(***************************************************************************)
(* The node side: src/node_container.py and the cache of                   *)
(* src/kubernetes_sim_cli.py                                               *)
(***************************************************************************)
\* what requests.post gives: a response with its status code, or an exception
Response(code) == [raised |-> FALSE, status_code |-> code]

RequestException == [raised |-> TRUE, status_code |-> 0]

\* POST /nodes with the body of line 78: the answer add_node gives to it (201 when it
\* registers the node), or no answer
RegisterAnswers(c) ==
    LET body == [data |-> "cpu_cores", cpu_cores |-> [type |-> "int", n |-> c.cpu_cores],
                 container_id |-> c.container_id]
    IN  { Response(IF add_node_code(body) = 0 THEN 201 ELSE add_node_code(body)),
          RequestException }

\* POST /nodes/<node_id>/heartbeat: an answer of update_heartbeat, or no answer
HeartbeatAnswers ==
    { Response(update_heartbeat_code(success)) : success \in BOOLEAN } \cup {RequestException}

\* the constructor call: add_node, line 182, and kubernetes_sim_cli.add_node, line 46
new_NodeContainer ==
    /\ main.pc = "none"
    /\ \E cpu_cores \in ContainerCores :
          container' = NodeContainer(cpu_cores, API_SERVER_URL)
    /\ main' = [MainIdle EXCEPT !.pc = "new"]
    /\ sender' = SenderIdle
    /\ UNCHANGED <<docker_engine, active_nodes, node_registry_file>>
    /\ UNCHANGED server

\* _get_docker_client, lines 28-43: the client the object holds, or a new one: a
\* DockerClient, or a SimulatedDockerClient when its creation raises
get_docker_client(c) ==
    IF c.docker_client = None THEN {"DockerClient", "SimulatedDockerClient"}
    ELSE {c.docker_client}

\* start, lines 48-51
start_get_docker_client ==
    /\ main.pc = "new"
    /\ \E docker_client \in get_docker_client(container) :
          /\ container' = [container EXCEPT !.docker_client = docker_client]
          /\ main' = [main EXCEPT !.pc = "client",
                                  !.executor = IF docker_client = "DockerClient"
                                               THEN "docker" ELSE "no_client"]
    /\ UNCHANGED <<sender, docker_engine, active_nodes, node_registry_file>>
    /\ UNCHANGED server

\* a start that gives up when the container cannot be launched
start_launch_no_fallback ==
    /\ main.pc = "client"
    /\ \/ /\ container.docker_client = "DockerClient"
          /\ \E id \in DockerIds \ docker_engine :
                /\ container' = [container EXCEPT !.container_id = id]
                /\ docker_engine' = docker_engine \cup {id}
          /\ main' = [main EXCEPT !.pc = "launched"]
       \/ /\ container.docker_client = "DockerClient"
          /\ main' = [main EXCEPT !.pc = "failed", !.result = "False", !.executor = "no_launch"]
          /\ UNCHANGED <<container, docker_engine>>
       \/ /\ container.docker_client = "SimulatedDockerClient"
          /\ main' = [main EXCEPT !.pc = "failed", !.result = "False"]
          /\ UNCHANGED <<container, docker_engine>>
    /\ UNCHANGED <<sender, active_nodes, node_registry_file>>
    /\ UNCHANGED server

\* start, lines 53-73: containers.run gives a container, or raises; with a raise, or
\* with the simulated client, the container id is a simulated one
start_launch ==
    /\ main.pc = "client"
    /\ \/ /\ container.docker_client = "DockerClient"
          /\ \E id \in DockerIds \ docker_engine :
                /\ container' = [container EXCEPT !.container_id = id]
                /\ docker_engine' = docker_engine \cup {id}
          /\ main' = [main EXCEPT !.pc = "launched"]
       \/ /\ container.docker_client = "DockerClient"
          /\ container' = [container EXCEPT !.container_id = "simulated_0"]
          /\ main' = [main EXCEPT !.pc = "launched", !.executor = "no_launch"]
          /\ UNCHANGED docker_engine
       \/ /\ container.docker_client = "SimulatedDockerClient"
          /\ container' = [container EXCEPT !.container_id = "simulated_0"]
          /\ main' = [main EXCEPT !.pc = "launched"]
          /\ UNCHANGED docker_engine
    /\ UNCHANGED <<sender, active_nodes, node_registry_file>>
    /\ UNCHANGED server

\* a cleanup that does nothing
cleanup_container_skip(c, docker_client, engine) == engine

\* _cleanup_container, lines 102-111, on the engine: with a container id and a client
\* that is not the simulated one, the container is stopped and removed; when the
\* engine holds no container of that id, get raises and the except clause logs it
cleanup_container(c, docker_client, engine) ==
    IF c.container_id # None /\ docker_client # "SimulatedDockerClient"
    THEN engine \ {c.container_id}
    ELSE engine

\* a start that sets running before it looks at the answer
start_register_running_first ==
    /\ main.pc = "launched"
    /\ \E answer \in RegisterAnswers(container) :
          IF ~answer.raised /\ answer.status_code = 201
          THEN /\ \E node_id \in Uuids \ Keys(active_nodes) :
                     container' = [container EXCEPT !.node_id = node_id,
                                                    !.running = TRUE,
                                                    !.heartbeat_thread = "Thread"]
               /\ main' = [main EXCEPT !.pc = "started", !.result = "True",
                                       !.answer = answer.status_code]
               /\ sender' = [SenderIdle EXCEPT !.pc = "check"]
               /\ UNCHANGED docker_engine
          ELSE /\ main' = [main EXCEPT !.pc = "failed", !.result = "False",
                                       !.answer = answer.status_code]
               /\ docker_engine' = cleanup_container(container, container.docker_client, docker_engine)
               /\ container' = [container EXCEPT !.running = TRUE]
               /\ UNCHANGED sender
    /\ UNCHANGED <<active_nodes, node_registry_file>>
    /\ UNCHANGED server

\* start, lines 76-100: the registration.  With the answer 201 the object takes the
\* node id of the answer, sets running and starts the heartbeat thread, and start
\* returns True; with another answer, or an exception, it cleans up and returns False
start_register ==
    /\ main.pc = "launched"
    /\ \E answer \in RegisterAnswers(container) :
          IF ~answer.raised /\ answer.status_code = 201
          THEN /\ \E node_id \in Uuids \ Keys(active_nodes) :
                     container' = [container EXCEPT !.node_id = node_id,
                                                    !.running = TRUE,
                                                    !.heartbeat_thread = "Thread"]
               /\ main' = [main EXCEPT !.pc = "started", !.result = "True",
                                       !.answer = answer.status_code]
               /\ sender' = [SenderIdle EXCEPT !.pc = "check"]
               /\ UNCHANGED docker_engine
          ELSE /\ main' = [main EXCEPT !.pc = "failed", !.result = "False",
                                       !.answer = answer.status_code]
               /\ docker_engine' = cleanup_container(container, container.docker_client, docker_engine)
               /\ UNCHANGED <<container, sender>>
    /\ UNCHANGED <<active_nodes, node_registry_file>>
    /\ UNCHANGED server

\* ---- _send_heartbeats, lines 113-126
\* a loop that does not read the flag: while True
send_heartbeats_next_forever(running) == "post"

\* line 115: while self.running
send_heartbeats_next(running) == IF running THEN "post" ELSE "exit"

send_heartbeats_check ==
    /\ sender.pc = "check"
    /\ sender' = [sender EXCEPT !.pc = send_heartbeats_next(container.running)]
    /\ UNCHANGED <<container, main, docker_engine, active_nodes, node_registry_file>>
    /\ UNCHANGED server

\* a loop that an exception of the call ends: no try around the call
send_heartbeats_after_uncaught(answer) == IF answer.raised THEN "exit" ELSE "sleep"

\* lines 116-123: whatever the call gives, a status code or an exception, is logged
\* and the loop goes on to its sleep
send_heartbeats_after(answer) == "sleep"

\* lines 117-123: the call, for the node id the object holds now
send_heartbeats_post ==
    /\ sender.pc = "post"
    /\ \E answer \in HeartbeatAnswers :
          sender' = [sender EXCEPT
              !.pc = send_heartbeats_after(answer),
              !.target = container.node_id,
              !.ok = (~answer.raised /\ answer.status_code = 200),
              !.late = IF container.running THEN @ ELSE IF @ < 2 THEN @ + 1 ELSE @]
    /\ UNCHANGED <<container, main, docker_engine, active_nodes, node_registry_file>>
    /\ UNCHANGED server

\* line 126: time.sleep(10) returns
send_heartbeats_sleep ==
    /\ sender.pc = "sleep"
    /\ sender' = [sender EXCEPT !.pc = "check"]
    /\ UNCHANGED <<container, main, docker_engine, active_nodes, node_registry_file>>
    /\ UNCHANGED server

\* ---- stop, lines 128-135
\* line 130
stop_running ==
    /\ main.pc = "started"
    /\ container' = [container EXCEPT !.running = FALSE]
    /\ main' = [main EXCEPT !.pc = "stopping"]
    /\ UNCHANGED <<sender, docker_engine, active_nodes, node_registry_file>>
    /\ UNCHANGED server

\* lines 131-135: join(1) waits for the thread a second at most, then the cleanup
stop_cleanup ==
    /\ main.pc = "stopping"
    /\ \E docker_client \in get_docker_client(container) :
          /\ container' = [container EXCEPT !.docker_client =
                              IF container.container_id # None THEN docker_client ELSE @]
          /\ docker_engine' = cleanup_container(container, docker_client, docker_engine)
    /\ main' = [main EXCEPT !.pc = "stopped"]
    /\ UNCHANGED <<sender, active_nodes, node_registry_file>>
    /\ UNCHANGED server

(***************************************************************************)
(* The handle cache of src/kubernetes_sim_cli.py.  Every command is a      *)
(* process of its own: main loads the cache, runs the command, and the     *)
(* process ends, its daemon threads with it.  The heartbeat threads that   *)
(* loading starts are seen in the heartbeat_thread field of the loaded     *)
(* objects; `sender` follows the thread of the object add-node constructs. *)
(***************************************************************************)
\* del d[id]
dict_del(d, id) == SelectSeq(d, LAMBDA node : node.node_id # id)

\* a pickling that keeps the thread
getstate_with_thread(c) == [c EXCEPT !.docker_client = None]

\* __getstate__, lines 137-143: a copy of __dict__ without the client and the thread
getstate(c) == [c EXCEPT !.docker_client = None, !.heartbeat_thread = None]

\* an unpickling that starts no thread
setstate_no_thread(state) == state

\* __setstate__, lines 145-152: __dict__ takes the state, and a new thread is started
\* if the node was running
setstate(state) ==
    [state EXCEPT !.heartbeat_thread = IF state.running THEN "Thread" ELSE @]

\* pickle.dump and pickle.load of the dict: its objects by __getstate__, __setstate__
pickle_dump(d) == [i \in DOMAIN d |-> getstate(d[i])]

pickle_load(data) == [i \in DOMAIN data |-> setstate(data[i])]

\* save_nodes, lines 27-32: the file after it
save_nodes(d) == [exists |-> TRUE, data |-> pickle_dump(d)]

\* load_nodes, lines 16-24: active_nodes after it ({} of line 13 without a file)
load_nodes(file) == IF file.exists THEN pickle_load(file.data) ELSE <<>>

\* main, line 180: a new process loads the cache
cli_main_load_nodes ==
    /\ main.pc = "none"
    /\ active_nodes' = load_nodes(node_registry_file)
    /\ main' = [main EXCEPT !.pc = "cli"]
    /\ UNCHANGED <<container, sender, docker_engine, node_registry_file>>
    /\ UNCHANGED server

\* add_node, lines 37-46: the check of the sign, and the constructor call
cli_add_node_new ==
    /\ main.pc = "cli"
    /\ Keys(active_nodes) # Uuids
    /\ \E cpu_cores \in ContainerCores :
          IF cpu_cores <= 0
          THEN /\ main' = [main EXCEPT !.pc = "returned"]
               /\ UNCHANGED container
          ELSE /\ container' = NodeContainer(cpu_cores, API_SERVER_URL)
               /\ main' = [main EXCEPT !.pc = "new"]
    /\ UNCHANGED <<sender, docker_engine, active_nodes, node_registry_file>>
    /\ UNCHANGED server

\* add_node, lines 49-56: start() returned True
cli_add_node_save ==
    /\ main.pc = "started"
    /\ active_nodes' = dict_set(active_nodes, container.node_id, container)
    /\ node_registry_file' = save_nodes(active_nodes')
    /\ main' = [main EXCEPT !.pc = "returned"]
    /\ UNCHANGED <<container, sender, docker_engine>>
    /\ UNCHANGED server

\* add_node, lines 57-59: start() returned False
cli_add_node_failed ==
    /\ main.pc = "failed"
    /\ main' = [main EXCEPT !.pc = "returned"]
    /\ UNCHANGED <<container, sender, docker_engine, active_nodes, node_registry_file>>
    /\ UNCHANGED server

\* stop_node, lines 122-129, for a node id of the cache: stop() of the object (the
\* flag, the join, the cleanup with the client the object gets now), del, save_nodes
cli_stop_node ==
    /\ main.pc = "cli"
    /\ \E node_id \in Keys(active_nodes) :
          /\ \E docker_client \in get_docker_client(Get(active_nodes, node_id)) :
                docker_engine' = cleanup_container(Get(active_nodes, node_id),
                                                   docker_client, docker_engine)
          /\ active_nodes' = dict_del(active_nodes, node_id)
    /\ node_registry_file' = save_nodes(active_nodes')
    /\ main' = [main EXCEPT !.pc = "returned"]
    /\ UNCHANGED <<container, sender>>
    /\ UNCHANGED server

\* line 215: sys.exit(main()), after a command, or with no command that uses the
\* cache; the objects and the threads of the process are gone
cli_exit ==
    /\ main.pc \in {"cli", "returned"}
    /\ main' = MainIdle
    /\ container' = NoContainer
    /\ sender' = SenderIdle
    /\ active_nodes' = <<>>
    /\ UNCHANGED <<docker_engine, node_registry_file>>
    /\ UNCHANGED server

\* the threads of the registry and the monitor
Threads ==
    \/ \E args \in RegisterArgs : register_node_create(args)
    \/ \E r \in registering : register_node_insert(r)
    \/ \E node_id \in NodeIds : update_heartbeat(node_id)
    \/ monitor_read_clock
    \/ monitor_snapshot
    \/ monitor_check
    \/ monitor_mark
    \/ monitor_sleep

\* list_nodes writes nothing the other threads read: Spec leaves it to SpecList
Next ==
    \/ Tick
    \/ Threads

Spec == Init /\ [][Next]_vars

\* the same threads and a list_nodes call, on a clock of long ticks
NextList ==
    \/ LongTick
    \/ Threads
    \/ list_nodes_iter
    \/ list_nodes_next
    \/ list_nodes_respond

SpecList == Init /\ [][NextList]_vars

\* the clock of SpecTimed, where the threads take no time: it advances a scan
\* interval at a time, and only when no call is in flight and the monitor sleeps
TimedTick ==
    /\ registering = {}
    /\ monitor.pc = "sleep"
    /\ monitor.sleep_left > 0
    /\ Advance(scan_sleep)

\* the threads on that clock: a scan starts every scan_sleep seconds exactly.  The
\* registrations are all alike: their arguments play no part in the timing
NextTimed ==
    \/ TimedTick
    \/ register_node_create([cpu_cores |-> 4, container_id |-> "simulated_0"])
    \/ \E r \in registering : register_node_insert(r)
    \/ \E node_id \in NodeIds : update_heartbeat(node_id)
    \/ monitor_read_clock
    \/ monitor_snapshot
    \/ monitor_check
    \/ monitor_mark
    \/ monitor_sleep

SpecTimed == Init /\ [][NextTimed]_vars

\* the handler add_node in front of register_node
NextApi ==
    \/ LongTick
    \/ \E body \in Bodies : add_node(body)
    \/ \E r \in registering : register_node_insert(r)

SpecApi == Init /\ [][NextApi]_vars

\* one NodeContainer in a process that stays: construction, start, the heartbeat
\* thread, stop
NextAgent ==
    \/ new_NodeContainer
    \/ start_get_docker_client
    \/ start_launch
    \/ start_register
    \/ send_heartbeats_check
    \/ send_heartbeats_post
    \/ send_heartbeats_sleep
    \/ stop_running
    \/ stop_cleanup

SpecAgent == Init /\ [][NextAgent]_vars

\* the commands of the CLI, one process after the other
NextCache ==
    \/ cli_main_load_nodes
    \/ cli_add_node_new
    \/ start_get_docker_client
    \/ start_launch
    \/ start_register
    \/ send_heartbeats_check
    \/ send_heartbeats_post
    \/ send_heartbeats_sleep
    \/ cli_add_node_save
    \/ cli_add_node_failed
    \/ cli_stop_node
    \/ cli_exit

SpecCache == Init /\ [][NextCache]_vars

\* time beyond the horizon of the model: the clock of the model stays, the sleep of
\* the monitor ends
Horizon ==
    /\ now + ClockStep > MaxTime
    /\ monitor.sleep_left > 0
    /\ monitor' = [monitor EXCEPT !.sleep_left = 0]
    /\ resp' = NoResp
    /\ UNCHANGED <<client, now, nodes, registering, listing, returned, hist>>

\* the thread of _monitor_node_health
MonitorNext ==
    \/ monitor_read_clock
    \/ monitor_snapshot
    \/ monitor_check
    \/ monitor_mark
    \/ monitor_sleep

NextLive ==
    \/ Tick
    \/ Horizon
    \/ Threads

\* time passes, and the monitor thread, started in __init__ and never joined, is
\* scheduled whenever it can run; nothing is asked of the callers
SpecLive ==
    /\ Init
    /\ [][NextLive]_vars
    /\ WF_vars(Tick \/ Horizon)
    /\ WF_vars(MonitorNext)

\* the heartbeat thread is a thread of the interpreter: while its process lives, a
\* step it can take is taken
SpecAgentFair ==
    /\ SpecAgent
    /\ WF_vars(send_heartbeats_check)
    /\ WF_vars(send_heartbeats_post)
    /\ WF_vars(send_heartbeats_sleep)

(***************************************************************************)
(* The claims                                                              *)
(***************************************************************************)
Range(f) == { f[k] : k \in DOMAIN f }

Status(d, id) == Get(d, id).status

Silent(id) == hist[id].beats = 0

\* the step just taken answered a request `op` about node id
Answered(op, id) == resp'.op = op /\ resp'.node_id = id

\* ---- C1
StatusStep(a, b) ==
    \/ a = b
    \/ a = "Ready" /\ b = "NotReady"
    \/ a = "NotReady" /\ b = "Failed"

\* C1: in every step, of whatever thread, every record stays in the registry and its
\* status either stays or moves Ready -> NotReady or NotReady -> Failed; so it never
\* moves backwards, never goes from Ready to Failed in one step, and stays Failed
\* once Failed.
C1_StatusOnlyForward ==
    [][ \A id \in Keys(nodes) :
           /\ id \in Keys(nodes')
           /\ StatusStep(Status(nodes, id), Status(nodes', id)) ]_vars

\* a record that went both steps
C1_Witness == \E k \in DOMAIN nodes : nodes[k].status = "Failed"

\* ---- C2
\* the transition table of the health monitor, row by row
Table(status, elapsed) ==
    CASE status = "Ready"    /\ elapsed <= heartbeat_timeout -> "Ready"
      [] status = "Ready"    /\ elapsed >  heartbeat_timeout -> "NotReady"
      [] status = "NotReady" /\ elapsed >  heartbeat_timeout -> "Failed"
      [] status = "NotReady" /\ elapsed <= heartbeat_timeout -> "NotReady"
      [] status = "Failed"                                   -> "Failed"

\* the step ends the monitor's visit of an item of its list
VisitEnds == monitor.pc \in {"iter", "expired"} /\ monitor'.i = monitor.i + 1

ScanEnds == monitor.pc = "iter" /\ monitor'.pc = "sleep"

C4_HeartbeatAtomicWithScan ==
    [][ \A id \in Keys(nodes) :
           Status(nodes', id) # Status(nodes, id)
              => monitor.current_time - Get(nodes, id).last_heartbeat > heartbeat_timeout ]_vars

\* ---- C5
\* C5: a heartbeat for an id of the registry is answered 200 and changes nothing of
\* the registry but that record's last_heartbeat, which becomes the current time; the
\* status of the record stays, whatever it is.
C5_HeartbeatKnown ==
    [][ \A id \in Keys(nodes) :
           Answered("heartbeat", id) =>
              /\ resp'.code = 200
              /\ nodes' = [k \in DOMAIN nodes |->
                              IF nodes[k].node_id = id
                              THEN [nodes[k] EXCEPT !.last_heartbeat = now]
                              ELSE nodes[k]] ]_vars

\* a Failed record just answered 200: its last_heartbeat is now, and it is still Failed
C5_Witness ==
    /\ resp.op = "heartbeat"
    /\ resp.code = 200
    /\ resp.node_id \in Keys(nodes)
    /\ Get(nodes, resp.node_id).status = "Failed"
    /\ Get(nodes, resp.node_id).last_heartbeat = now

\* ---- C6
\* C6: a heartbeat for an id that register_node never returned is answered 404 and
\* leaves the registry as it was: the same records, with the same fields.
C6_HeartbeatUnknown ==
    [][ \A id \in NodeIds \ Range(returned) :
           Answered("heartbeat", id) => (resp'.code = 404 /\ nodes' = nodes) ]_vars

\* a 404 just given for an unknown id, in a registry that holds a record
C6_Witness ==
    /\ resp.op = "heartbeat"
    /\ resp.code = 404
    /\ resp.node_id \notin Range(returned)
    /\ nodes # <<>>

\* ---- C7
\* C7: the step in which a register_node call returns answers 201 with an id that no
\* earlier call returned, and the registry then holds under that id a record with
\* status Ready, cpu_cores and available_cores the cores passed, no pods,
\* last_heartbeat the time the call read, and container_id the reference passed; and
\* every call in flight can take that step.
C7_Register ==
    /\ [][ \A r \in registering :
             Answered("register", r.node.node_id) =>
                /\ resp'.code = 201
                /\ r.node.node_id \notin Range(returned)
                /\ returned' = Append(returned, r.node.node_id)
                /\ r.node.node_id \in Keys(nodes')
                /\ LET node == Get(nodes', r.node.node_id) IN
                     /\ node.status = "Ready"
                     /\ node.cpu_cores = r.args.cpu_cores
                     /\ node.available_cores = r.args.cpu_cores
                     /\ node.pods = <<>>
                     /\ node.last_heartbeat = r.called
                     /\ node.container_id = r.args.container_id ]_vars
    /\ [](\A r \in registering : r.called <= now /\ ENABLED register_node_insert(r))

\* the second registration just returned, later than the first and with a container
C7_Witness ==
    /\ resp.op = "register"
    /\ Len(returned) = 2
    /\ Get(nodes, resp.node_id).container_id # None
    /\ Get(nodes, resp.node_id).last_heartbeat > 0

\* ---- C8
\* C8: whatever register_node calls overlap, the ids returned are pairwise distinct,
\* the registry holds exactly one record per id returned, the ids of the calls in
\* flight are fresh and pairwise distinct, and a returning call appends its record and
\* leaves the records already there in place.
C8_ConcurrentRegister ==
    /\ [] /\ \A a, b \in DOMAIN returned : a # b => returned[a] # returned[b]
          /\ Len(nodes) = Len(returned)
          /\ Keys(nodes) = Range(returned)
          /\ \A r \in registering : r.node.node_id \notin Keys(nodes)
          /\ \A r, q \in registering : r # q => r.node.node_id # q.node.node_id
    /\ [][ resp'.op = "register" =>
             /\ Len(nodes') = Len(nodes) + 1
             /\ \A k \in DOMAIN nodes : nodes'[k].node_id = nodes[k].node_id ]_vars

\* two calls overlapped: the record inserted first was constructed after the other
C8_Witness ==
    /\ Len(returned) = 2
    /\ Len(nodes) = 2
    /\ Silent(nodes[1].node_id) /\ Silent(nodes[2].node_id)
    /\ nodes[1].last_heartbeat > nodes[2].last_heartbeat

\* ---- C9
\* C9: a list_nodes call never ends in an exception, and the list it returns is the
\* registry as it stood at one instant between the call and the return.
C9_ListSnapshot ==
    /\ listing.pc # "RuntimeError"
    /\ listing.pc = "return" => <<>> \in listing.cand

\* the two halves of C9, each refuted on its own
C9_ListNeverFaults == listing.pc # "RuntimeError"

C9_ListConsistent == listing.pc = "return" => <<>> \in listing.cand

\* ---- C10
\* C10: a scan takes the list of the ids of the registry when it starts and keeps it
\* to its end, whatever is registered meanwhile; it visits the items of that list
\* and only them, so the status of a record registered meanwhile does not change in
\* that scan, and the next scan's list holds it.
C10_ScanSnapshot ==
    /\ [][ (monitor.pc = "clock" /\ monitor'.pc = "iter")
             => (monitor'.i = 0 /\ monitor'.items = [k \in DOMAIN nodes |-> nodes[k].node_id]) ]_vars
    /\ [][ (monitor.pc \in {"iter", "expired"} /\ monitor'.pc \in {"iter", "expired"})
             => monitor'.items = monitor.items ]_vars
    /\ [][ \A id \in Keys(nodes) :
             Status(nodes', id) # Status(nodes, id)
                => /\ monitor.pc = "expired"
                   /\ monitor.i < Len(monitor.items)
                   /\ monitor.items[monitor.i + 1] = id ]_vars
    /\ [](monitor.i <= Len(monitor.items))
    /\ [][ ScanEnds => monitor.i = Len(monitor.items) ]_vars

\* a scan has visited its whole list; a record registered during the scan, which the
\* scan would have found timed out, is still Ready
C10_Witness ==
    /\ monitor.pc = "iter"
    /\ monitor.i = Len(monitor.items)
    /\ Len(monitor.items) = 1
    /\ Len(nodes) = 2
    /\ nodes[2].status = "Ready"
    /\ monitor.current_time - nodes[2].last_heartbeat > heartbeat_timeout

\* ---- C11
\* the bodies the interface rejects: cpu_cores missing, not a number, or <= 0
Rejected(body) ==
    \/ body.data # "cpu_cores"
    \/ body.cpu_cores.type \in {"abc", "null"}
    \/ body.cpu_cores.type = "int" /\ body.cpu_cores.n <= 0

\* the bodies with a positive integer cpu_cores
PositiveInt(body) ==
    body.data = "cpu_cores" /\ body.cpu_cores.type = "int" /\ body.cpu_cores.n > 0

\* C11: a POST /nodes whose cpu_cores is missing, not a number (a string that is no
\* number, or null) or <= 0 is answered 400 and leaves the registry and the calls in
\* flight as they were; one with a positive integer cpu_cores starts a registration
\* with that cpu_cores, which is answered 201 with its node_id; and every record of
\* the registry has cpu_cores > 0.
C11_AddNodeValidation ==
    /\ [][ \A body \in Bodies :
             (Rejected(body) /\ add_node(body))
                => (resp'.code = 400 /\ nodes' = nodes /\ registering' = registering) ]_vars
    /\ [][ \A body \in Bodies :
             (PositiveInt(body) /\ add_node(body))
                => \E r \in registering' \ registering :
                      r.node.cpu_cores = body.cpu_cores.n ]_vars
    /\ [][ resp'.op = "register" =>
             (resp'.code = 201 /\ resp'.node_id \in Keys(nodes')) ]_vars
    /\ [](\A k \in DOMAIN nodes : nodes[k].cpu_cores > 0)

\* the parts of C11 that hold of the code: no rejected body, whatever it is answered,
\* changes the registry, and every record has cpu_cores > 0
C11_NoRecordCreated ==
    /\ [][ \A body \in Bodies :
             (Rejected(body) /\ add_node(body))
                => (resp'.code \in {400, 500} /\ nodes' = nodes /\ registering' = registering) ]_vars
    /\ [](\A k \in DOMAIN nodes : nodes[k].cpu_cores > 0)

\* ---- C12
\* the scan that started at the present time has ended
ScanDone == monitor.pc = "sleep" /\ monitor.sleep_left > 0

Entries(acc, id) == { j \in DOMAIN acc : acc[j].node_id = id }

\* the records the registry held when the list_nodes call in flight began: no record
\* is removed or moved, so they are the first di_used of the registry
HeldAtCall == { nodes[k].node_id : k \in 1..listing.di_used }

\* C13: every id register_node returned is in the registry from then on, get_node
\* finds under it the record registered (the same id, cores and container), no step
\* removes a record, and every list_nodes call ends with a list that holds exactly
\* one entry for each id returned before the call began.
C13_RegisteredStaysVisible ==
    /\ [](\A id \in Range(returned) :
             id \in Keys(nodes) /\ get_node(nodes, id).node_id = id)
    /\ [][ \A id \in Keys(nodes) :
             /\ id \in Keys(nodes')
             /\ get_node(nodes', id).cpu_cores = get_node(nodes, id).cpu_cores
             /\ get_node(nodes', id).container_id = get_node(nodes, id).container_id ]_vars
    /\ [](listing.pc \in {"return", "RuntimeError"} =>
             \A id \in HeldAtCall :
                listing.pc = "return" /\ Cardinality(Entries(listing.acc, id)) = 1)

\* the part of C13 that holds of the code: ids stay, get_node finds them, and a
\* list_nodes call that returns a list returns one entry for each id returned before
\* the call began
C13_VisibleUnlessListFaults ==
    /\ [](\A id \in Range(returned) :
             id \in Keys(nodes) /\ get_node(nodes, id).node_id = id)
    /\ [][ \A id \in Keys(nodes) : id \in Keys(nodes') ]_vars
    /\ [](listing.pc = "return" =>
             \A id \in HeldAtCall : Cardinality(Entries(listing.acc, id)) = 1)

\* ---------------------------------------------------------------------------
\* C14: after a registration that succeeded the heartbeat loop runs until stop()
\* clears the flag: the loop ends only when running is false, every call, failed or
\* not, is followed by the sleep and is made for the node id of the object, a failed
\* call is followed by another call unless the node is stopped, and at most one call
\* is made after the flag is cleared (the one in progress)
HeartbeatTask == sender.pc \in {"check", "post", "sleep"}

C14_LoopUntilStop ==
    /\ [][ /\ (sender.pc = "post" /\ sender' # sender =>
                  sender'.pc = "sleep" /\ sender'.target = container.node_id)
           /\ (HeartbeatTask /\ sender'.pc = "exit" => sender.pc = "check" /\ ~container.running)
           /\ (main.pc = "launched" /\ main'.pc = "started" => sender'.pc = "check")
         ]_vars
    /\ [](sender.late <= 1)
    /\ [](container.running /\ main.pc = "started" => HeartbeatTask)
    /\ ((sender.pc = "sleep" /\ ~sender.ok) ~> (sender.pc = "post" \/ ~container.running))

\* a call failed, the loop slept and is calling again, the node still running
C14_Witness ==
    /\ sender.pc = "post"
    /\ ~sender.ok
    /\ sender.target = container.node_id
    /\ sender.target # None
    /\ container.running

\* stop() found the thread between its test of the flag and its call: one more call
C14_WitnessLate == sender.late = 1 /\ sender.pc = "exit"

\* ---------------------------------------------------------------------------
\* C15: an executor that is unavailable (no client could be created, or the launch
\* raised) makes start() use a simulated container id and go on to the registration:
\* start() fails only in its registration step, every start that chose its client
\* reaches the registration, and what start() returns is whether the answer was 201
ExecutorUnavailable == main.executor \in {"no_client", "no_launch"}

C15_FallbackStillRegisters ==
    /\ [][ /\ (main'.pc = "failed" => main.pc = "launched")
           /\ (main.pc = "client" /\ main'.pc # main.pc => main'.pc = "launched")
         ]_vars
    /\ [](ExecutorUnavailable /\ main.pc \in {"launched", "started", "failed"}
             => container.container_id = "simulated_0")
    /\ [](main.pc \in {"started", "failed"}
             => (main.result = "True" <=> main.answer = 201))

\* the launch raised, and the node registered with a simulated container id
C15_Witness ==
    /\ main.executor = "no_launch"
    /\ main.pc = "started"
    /\ main.result = "True"
    /\ container.container_id = "simulated_0"
    /\ container.docker_client = "DockerClient"

\* ---------------------------------------------------------------------------
\* C16: saving and loading the cache keeps node_id, cpu_cores, api_server_url,
\* container_id and running of every handle; the saved form holds no client and no
\* thread; after loading a handle has a heartbeat thread iff its running flag is set
Durable(c) == <<c.node_id, c.cpu_cores, c.api_server_url, c.container_id, c.running>>

Handles == {container} \cup { active_nodes[i] : i \in DOMAIN active_nodes }

SameDurable(d, e) ==
    /\ Keys(d) = Keys(e)
    /\ \A id \in Keys(d) : Durable(Get(d, id)) = Durable(Get(e, id))

C16_CacheRoundTrip ==
    /\ [](\A o \in Handles :
             /\ Durable(setstate(getstate(o))) = Durable(o)
             /\ getstate(o).docker_client = None
             /\ getstate(o).heartbeat_thread = None
             /\ (setstate(getstate(o)).heartbeat_thread # None <=> o.running))
    /\ [](\A i \in DOMAIN node_registry_file.data :
             /\ node_registry_file.data[i].docker_client = None
             /\ node_registry_file.data[i].heartbeat_thread = None)
    /\ [][ /\ (node_registry_file' # node_registry_file
                  => SameDurable(node_registry_file'.data, active_nodes'))
           /\ (main.pc = "none" /\ main'.pc = "cli"
                  => /\ SameDurable(active_nodes', node_registry_file.data)
                     /\ \A i \in DOMAIN active_nodes' :
                           /\ active_nodes'[i].docker_client = None
                           /\ (active_nodes'[i].heartbeat_thread # None
                                  <=> active_nodes'[i].running))
         ]_vars

\* a process loaded a cache of two running nodes: each has its thread again
C16_Witness ==
    /\ main.pc = "cli"
    /\ Len(active_nodes) = 2
    /\ \A i \in DOMAIN active_nodes :
          /\ active_nodes[i].running
          /\ active_nodes[i].heartbeat_thread = "Thread"
          /\ active_nodes[i].docker_client = None
          /\ active_nodes[i].node_id \in Uuids

MonitorStep == monitor' # monitor /\ now' = now

C17_SingleWriter ==
    [][ /\ (MonitorStep =>
               /\ Len(nodes') = Len(nodes)
               /\ \A i \in DOMAIN nodes :
                     [nodes'[i] EXCEPT !.status = nodes[i].status] = nodes[i])
        /\ \A i \in DOMAIN nodes :
              /\ i \in DOMAIN nodes'
              /\ nodes'[i].node_id = nodes[i].node_id
              /\ (nodes'[i].status # nodes[i].status => MonitorStep)
              /\ (nodes'[i].last_heartbeat # nodes[i].last_heartbeat =>
                     /\ ~MonitorStep
                     /\ resp'.op = "heartbeat"
                     /\ resp'.node_id = nodes[i].node_id
                     /\ nodes'[i].last_heartbeat = now)
      ]_vars

\* the race: the monitor found the node expired, and before it set the status a
\* heartbeat of the node came in
C17_Witness ==
    /\ monitor.pc = "expired"
    /\ \E id \in Keys(nodes) :
          /\ id = Head(scan_rest(monitor, nodes))
          /\ Get(nodes, id).last_heartbeat > monitor.seen_hb
          /\ Get(nodes, id).last_heartbeat = now

\* ---------------------------------------------------------------------------
\* C18: under a fair monitor, a registered node that is silent for good (from some
\* point on its last heartbeat is always more than the timeout old) is Failed from
\* some point on, whatever registrations and heartbeats of other nodes go on
SilentFor(id) ==
    /\ id \in Keys(nodes)
    /\ now - Get(nodes, id).last_heartbeat > heartbeat_timeout

C18_SilentNodeFails ==
    \A id \in NodeIds :
        <>[]SilentFor(id) => <>[](id \in Keys(nodes) /\ Get(nodes, id).status = "Failed")

\* a silent node that the monitor has failed, beside a node that is Ready
C18_Witness ==
    \E id, other \in Keys(nodes) :
        /\ SilentFor(id)
        /\ Get(nodes, id).status = "Failed"
        /\ Get(nodes, other).status = "Ready"

\* ---------------------------------------------------------------------------
\* C19: a node that is alive stays Ready.  Alive: at every instant its last
\* heartbeat (its registration, before the first) is at most the timeout old, which
\* is to say that no gap between registration and heartbeats exceeds the timeout.
\* The scan compares the clock it read before its visits with the last_heartbeat
\* it reads at the visit, so it finds no alive node expired, however the heartbeats
\* fall between its steps
Alive(id) ==
    id \in Keys(nodes) => now - Get(nodes, id).last_heartbeat <= heartbeat_timeout

C19_AliveStaysReady ==
    \A id \in NodeIds :
        []Alive(id) => [](id \in Keys(nodes) => Get(nodes, id).status = "Ready")

\* the monitor has just visited a node whose last heartbeat was exactly the timeout
\* before the clock of the scan, and the node is Ready
C19_Witness ==
    /\ monitor.pc = "iter"
    /\ monitor.i >= 1
    /\ \E id \in Keys(nodes) :
          /\ monitor.items[monitor.i] = id
          /\ hist[id].beats = 1
          /\ monitor.current_time - Get(nodes, id).last_heartbeat = heartbeat_timeout
          /\ now = monitor.current_time
          /\ Get(nodes, id).status = "Ready"

========================================================================
